---- MODULE Spec2Model ----
(***************************************************************************)
(* Smart E-Buggy tracker (main.py): location ingestion, the per-device     *)
(* zone/trip state machine and the tables it writes.                       *)
(*                                                                         *)
(* Units.  Latitude and longitude are integers in 1e-4 degree.  Distances  *)
(* are integers in decimetres (haversine of the source returns metres as a *)
(* float; thresholds in metres are converted by Metres where compared).   *)
(* A timestamp is [t, aware]: t in seconds, aware = the datetime carries a *)
(* tzinfo.  None is <<>> and a set value v is <<v>> for the nullable       *)
(* fields enter_time and enter_pos; a null zone is the string "None".      *)
(* Every request carries a timestamp and no speed, so the server clock of  *)
(* line 136 is not read and speed_kmh is the default 0 of line 134.        *)
(***************************************************************************)
EXTENDS Integers, Sequences, FiniteSets, TLC

\* ---- bounds of the model ----
MaxCalls == 3
MaxTick == 2
MaxConcCalls == 3
MaxQueryCalls == 4

\* ---- Config (main.py 10-17) ----
API_KEY == "dev_key_please_change"
GEOfences ==
  << [name |-> "A", lat |-> 129710, lon |-> 775946, radius_m |-> 80],
     [name |-> "B", lat |-> 129720, lon |-> 775956, radius_m |-> 80] >>
MIN_TRIP_TIME_S == 30
MIN_TRIP_DISTANCE_M == 20

\* metres in the unit of haversine
Metres(m) == m * 10

\* ---- inputs ----
Devices == {"d1", "d2"}

\* centre of A; a point of A that also lies in B; a point of B only that is
\* less than 20 m from the former; two points outside every fence, 155 m
\* from the centre of A and 713 m from the centre of B
PA == <<129710, 775946>>
PAB == <<129715, 775951>>
PBnear == <<129716, 775952>>
POut == <<129700, 775936>>
POut2 == <<129766, 776002>>
Points == {PA, PAB, PBnear, POut, POut2}

\* the timestamps sent are multiples of 15 s
Tick(k) == 15 * k
Times == {Tick(k) : k \in 0..MaxTick}

Num(v) == [k |-> "num", v |-> v]
\* a string such as "12.9710N": digits that float() does not accept
RawText == [k |-> "text", v |-> PA[1]]
RawNone == [k |-> "none", v |-> 0]

IsoTz(t) == [k |-> "iso_tz", v |-> t]
IsoNaive(t) == [k |-> "iso_naive", v |-> t]
Epoch(t) == [k |-> "epoch", v |-> t]
RawTimes == {IsoTz(t) : t \in Times} \cup {IsoNaive(0)}

Payload(d, key, hdr, lat, lon, ts) ==
  [device_id |-> d, api_key |-> key, header_key |-> hdr, lat |-> lat, lon |-> lon,
   timestamp |-> ts]

\* d1 reports every point at every time; d2 a few samples of its own
SamplesOf(d) ==
  IF d = "d1" THEN Points \X RawTimes
  ELSE {<<PA, IsoTz(0)>>, <<PBnear, Epoch(Tick(MaxTick))>>, <<POut, Epoch(Tick(MaxTick))>>}

GoodPayloads ==
  UNION {{Payload(d, API_KEY, "", Num(s[1][1]), Num(s[1][2]), s[2]) : s \in SamplesOf(d)} :
           d \in Devices}
HeaderPayloads == {Payload("d1", "", API_KEY, Num(PA[1]), Num(PA[2]), IsoTz(0))}
BadKeyPayloads ==
  {Payload("d1", k[1], k[2], Num(PA[1]), Num(PA[2]), IsoTz(0)) :
     k \in {<<"wrong", "">>, <<"", "">>, <<"wrong", API_KEY>>}}
BadCoordPayloads ==
  {Payload("d1", API_KEY, "", c[1], c[2], IsoTz(0)) :
     c \in {<<RawText, Num(PA[2])>>, <<Num(PA[1]), RawNone>>}}
\* the JSON number 0 as latitude
ZeroCoordPayloads == {Payload("d1", API_KEY, "", Num(0), Num(PA[2]), IsoTz(0))}
Payloads ==
  GoodPayloads \cup HeaderPayloads \cup BadKeyPayloads \cup BadCoordPayloads
    \cup ZeroCoordPayloads

\* the samples stored before the queries: two devices, timestamps on two
\* calendar days, sent in any order
DayStart(n) == n * 86400
QueryTimes == {0, DayStart(1), DayStart(1) + Tick(MaxTick)}
QuerySamplesOf(d) ==
  IF d = "d1" THEN {PA, PBnear} \X {IsoTz(t) : t \in QueryTimes}
  ELSE {<<PA, IsoTz(0)>>, <<PBnear, IsoTz(Tick(MaxTick))>>}
QueryPayloads ==
  UNION {{Payload(d, API_KEY, "", Num(s[1][1]), Num(s[1][2]), s[2]) : s \in QuerySamplesOf(d)} :
           d \in Devices}

\* ---- state ----
VARIABLES
  devices,       \* table Device: sequence of rows
  locations,     \* table Location: sequence of rows
  trips,         \* table Trip: sequence of rows
  objs,          \* the dict objects created by detect_trip_and_record
  device_state,  \* device_state: device id -> index in objs, 0 when absent
  call,          \* the request being answered and its response
  ncalls,        \* number of requests served
  thr,           \* worker threads: position in detect_trip_and_record and its locals
  base,          \* trip state of each device and Trip table when no call was running
  batch,         \* the samples received since then
  reply,         \* the rows returned by the request being answered
  errors,        \* number of "Trip detect error:" lines printed
  probe          \* a fence list and a point, and the zone the loop of lines 75-79 gives

vars == <<devices, locations, trips, objs, device_state, call, ncalls, thr, base, batch,
          reply, errors, probe>>

None == <<>>
Some(v) == <<v>>

\* ---- Helpers ----
RECURSIVE SqrtSearch(_, _, _)
SqrtSearch(n, lo, hi) ==
  IF lo >= hi THEN lo
  ELSE LET mid == (lo + hi + 1) \div 2
       IN IF mid * mid <= n THEN SqrtSearch(n, mid, hi) ELSE SqrtSearch(n, lo, mid - 1)

ISqrt(n) == SqrtSearch(n, 0, 40000)

Abs(x) == IF x < 0 THEN -x ELSE x

\* great-circle distance in decimetres at the latitude of the fences:
\* 1e-4 degree is 11.12 m of latitude and 10.84 m of longitude
haversine(p, q) ==
  LET dy == Abs(p[1] - q[1]) * 111
      dx == Abs(p[2] - q[2]) * 108
  IN ISqrt(dy * dy + dx * dx)

\* variant: the radius taken in the wrong unit, ten times too wide
inside_geofence_wide(lat, lon, fence) ==
  haversine(<<lat, lon>>, <<fence.lat, fence.lon>>) <= Metres(fence.radius_m) * 10

inside_geofence_strict(lat, lon, fence) ==
  haversine(<<lat, lon>>, <<fence.lat, fence.lon>>) < Metres(fence.radius_m)

inside_geofence(lat, lon, fence) ==
  haversine(<<lat, lon>>, <<fence.lat, fence.lon>>) <= Metres(fence.radius_m)

\* the for loop of detect_trip_and_record: first fence in declared order
RECURSIVE FirstFence(_, _, _, _)
FirstFence(fences, lat, lon, i) ==
  IF i > Len(fences) THEN "None"
  ELSE IF inside_geofence(lat, lon, fences[i]) THEN fences[i].name
  ELSE FirstFence(fences, lat, lon, i + 1)

resolveZone(lat, lon) == FirstFence(GEOfences, lat, lon, 1)

\* ---- the zone loop on other fence lists ----
\* a fence of 54 m around the centre of A; PEdge lies 54.0 m east of that
\* centre, PPast 64.8 m
SmallFence == [name |-> "S", lat |-> PA[1], lon |-> PA[2], radius_m |-> 54]
PEdge == <<PA[1], PA[2] + 5>>
PPast == <<PA[1], PA[2] + 6>>
FencePool == {GEOfences[1], GEOfences[2], SmallFence}
\* the lists of distinct fences, the empty list included
FenceLists ==
  {fs \in UNION {[1..n -> FencePool] : n \in 0..Cardinality(FencePool)} :
     \A i \in DOMAIN fs : \A j \in DOMAIN fs : i # j => fs[i] # fs[j]}
Probe(fences, p) == [fences |-> fences, lat |-> p[1], lon |-> p[2], zone |-> "None", done |-> FALSE]
NoProbe == Probe(<<>>, PA)
Probes == {Probe(fences, p) : fences \in FenceLists, p \in Points \cup {PEdge, PPast}}

\* lines 75-79 for the point and fence list of the probe
Resolve ==
  /\ ~probe.done
  /\ probe' = [probe EXCEPT !.zone = FirstFence(probe.fences, probe.lat, probe.lon, 1),
                            !.done = TRUE]
  /\ UNCHANGED <<devices, locations, trips, objs, device_state, call, ncalls, thr, base,
                 batch, reply, errors>>

\* parse_iso: a string with an offset or an epoch number gives an aware
\* datetime, a string without offset a naive one
parse_iso(raw) ==
  IF raw.k = "iso_naive" THEN [t |-> raw.v, aware |-> FALSE]
  ELSE [t |-> raw.v, aware |-> TRUE]

\* float(data.get("lat") or data.get("latitude")): a falsy first value
\* falls through to the absent alias and float(None) raises
FloatOk_present(raw) == raw.k # "none" /\ raw.v # 0
FloatOk(raw) == raw.k = "num" /\ raw.v # 0
FloatOf(raw) == raw.v

DefaultState == [lastZone |-> "None", enter_time |-> None, enter_pos |-> None]

\* lines 74 and 115: device_state is keyed by the device id
StateKey_shared(device_id) == "d1"
StateKey(device_id) == device_id

\* the dict detect_trip_and_record works on for device d
StateOf(d) ==
  IF device_state[StateKey(d)] = 0 THEN DefaultState ELSE objs[device_state[StateKey(d)]]

\* datetime subtraction raises TypeError when exactly one operand is aware
SubRaises(a, b) == a.aware # b.aware
Seconds(a, b) == a.t - b.t

TripRow(device_id, enter_time, enter_pos, lat, lon, ts, distance_m, duration) ==
  [device_id |-> device_id, start_time |-> enter_time, end_time |-> ts,
   start_lat |-> enter_pos[1], start_lon |-> enter_pos[2],
   end_lat |-> lat, end_lon |-> lon,
   distance_m |-> distance_m, duration_s |-> duration]

\* variant: a trip of exactly the minimum duration is dropped
Qualifies_strict(duration, distance_m) ==
  /\ duration # 0
  /\ distance_m # 0
  /\ duration > MIN_TRIP_TIME_S
  /\ distance_m >= Metres(MIN_TRIP_DISTANCE_M)

\* line 92: duration and distance_m and duration >= ... and distance_m >= ...
Qualifies(duration, distance_m) ==
  /\ duration # 0
  /\ distance_m # 0
  /\ duration >= MIN_TRIP_TIME_S
  /\ distance_m >= Metres(MIN_TRIP_DISTANCE_M)

Result(st, rows, raised) == [state |-> st, rows |-> rows, raised |-> raised]

\* lines 82-84 and 106-108: the dict after entering currentZone
Entered(currentZone, lat, lon, ts) ==
  [lastZone |-> currentZone, enter_time |-> Some(ts), enter_pos |-> Some(<<lat, lon>>)]

\* variant: every sample of the zone restarts the stay
Stay_refresh(st, lat, lon, ts) ==
  IF st.lastZone = "None" THEN st
  ELSE [st EXCEPT !.enter_time = Some(ts), !.enter_pos = Some(<<lat, lon>>)]

\* lines 85-86: still in the same zone (or still outside every zone)
Stay(st, lat, lon, ts) == st

\* variant: the exit is ignored, the dict keeps the zone
Leave_ignored(st) == st

\* variant: only the zone is cleared
Leave_zone_only(st) == [st EXCEPT !.lastZone = "None"]

\* lines 110-113: the device left every zone
Leave(st) == [lastZone |-> "None", enter_time |-> None, enter_pos |-> None]

\* lines 88-108: from one zone into another.  commit_ok: db.session.commit()
\* of the Trip row succeeds.
\* line 105 raises: the writes of lines 106-108, which would make the dict
\* entered, are not reached
CommitFailed_after_writes(st, entered) == Result(entered, <<>>, TRUE)
CommitFailed(st, entered) == Result(st, <<>>, TRUE)

Change_keep_entry(st, device_id, currentZone, lat, lon, ts, commit_ok) ==
  Result([st EXCEPT !.lastZone = currentZone], <<>>, FALSE)

Change(st, device_id, currentZone, lat, lon, ts, commit_ok) ==
  IF st.enter_time # None /\ SubRaises(ts, st.enter_time[1])
    THEN Result(st, <<>>, TRUE)
  ELSE
    LET has == st.enter_time # None /\ st.enter_pos # None
        duration == IF st.enter_time # None THEN Seconds(ts, st.enter_time[1]) ELSE 0
        distance_m == IF st.enter_pos # None
                      THEN haversine(st.enter_pos[1], <<lat, lon>>) ELSE 0
    IN IF has /\ Qualifies(duration, distance_m)
         THEN IF commit_ok
                THEN Result(Entered(currentZone, lat, lon, ts),
                            <<TripRow(device_id, st.enter_time[1], st.enter_pos[1],
                                      lat, lon, ts, distance_m, duration)>>,
                            FALSE)
              ELSE CommitFailed(st, Entered(currentZone, lat, lon, ts))
       ELSE Result(Entered(currentZone, lat, lon, ts), <<>>, FALSE)

\* detect_trip_and_record run alone on dict st: the dict it leaves, the Trip
\* rows it commits and whether it raised
Detect(st, device_id, lat, lon, ts, commit_ok) ==
  LET currentZone == resolveZone(lat, lon)
  IN IF st.lastZone = "None" /\ currentZone # "None"
       THEN Result(Entered(currentZone, lat, lon, ts), <<>>, FALSE)
     ELSE IF st.lastZone = currentZone
       THEN Result(Stay(st, lat, lon, ts), <<>>, FALSE)
     ELSE IF st.lastZone # "None" /\ currentZone # "None" /\ st.lastZone # currentZone
       THEN Change(st, device_id, currentZone, lat, lon, ts, commit_ok)
     ELSE IF currentZone = "None"
       THEN Result(Leave(st), <<>>, FALSE)
     ELSE Result(st, <<>>, FALSE)

\* ---- Routes ----
\* db.session.add(row) and db.session.commit() of a new row
session_add_merge(table, row) ==
  IF \E i \in DOMAIN table : table[i].device_id = row.device_id
    THEN [table EXCEPT ![CHOOSE i \in DOMAIN table : table[i].device_id = row.device_id] = row]
  ELSE Append(table, row)
session_add(table, row) == Append(table, row)

\* POST /api/location returns no rows
NoReply == [kind |-> "none", rows |-> <<>>]

Rejected(p, status) ==
  /\ call' = [req |-> p, status |-> status, raised |-> FALSE]
  /\ ncalls' = ncalls + 1
  /\ reply' = NoReply
  /\ UNCHANGED <<devices, locations, trips, objs, device_state, thr, base, batch, errors, probe>>

DeviceIndex(d) ==
  IF \E i \in 1..Len(devices) : devices[i].device_id = d
  THEN CHOOSE i \in 1..Len(devices) : devices[i].device_id = d
  ELSE 0

\* variant: the exception of the detection is not caught
StatusAfterDetect_uncaught(raised) == IF raised THEN 500 ELSE 200

\* lines 151-157: an exception of the detection is printed and the call
\* still answers {"status": "ok"}
StatusAfterDetect(raised) == 200

\* variant: any key that is present is accepted
Authorized_any(p) == ~(API_KEY # "" /\ p.api_key = "" /\ p.header_key = "")

\* lines 126-127: the key of the body, else the X-API-KEY header
Credential(p) == IF p.api_key # "" THEN p.api_key ELSE p.header_key
\* line 127: the check is skipped when no secret is configured
Authorized(p) == ~(API_KEY # "" /\ Credential(p) # API_KEY)

\* POST /api/location
api_location(p, commit_ok) ==
  /\ IF ~Authorized(p)
       THEN Rejected(p, 401)
     ELSE IF ~(FloatOk(p.lat) /\ FloatOk(p.lon))
       THEN Rejected(p, 400)
     ELSE
       LET lat == FloatOf(p.lat)
           lon == FloatOf(p.lon)
           ts == parse_iso(p.timestamp)
           d == p.device_id
           dev == DeviceIndex(d)
       IN \E r \in {Detect(StateOf(d), d, lat, lon, ts, commit_ok)} :
          /\ devices' = IF dev = 0
                        THEN Append(devices, [device_id |-> d, name |-> d, last_seen |-> ts])
                        ELSE [devices EXCEPT ![dev].last_seen = ts]
          /\ locations' = session_add(locations, [device_id |-> d, lat |-> lat, lon |-> lon,
                                                  speed_kmh |-> 0, timestamp |-> ts])
          /\ trips' = trips \o r.rows
          \* the dict of line 74 is written in place; a new dict is stored by
          \* line 115 only, which an exception skips
          /\ IF device_state[StateKey(d)] # 0
               THEN /\ objs' = [objs EXCEPT ![device_state[StateKey(d)]] = r.state]
                    /\ UNCHANGED device_state
             ELSE IF r.raised
               THEN UNCHANGED <<objs, device_state>>
             ELSE /\ objs' = Append(objs, r.state)
                  /\ device_state' = [device_state EXCEPT ![StateKey(d)] = Len(objs) + 1]
          /\ call' = [req |-> p, status |-> StatusAfterDetect(r.raised), raised |-> r.raised]
          /\ ncalls' = ncalls + 1
          /\ errors' = IF r.raised THEN errors + 1 ELSE errors
          /\ reply' = NoReply
          /\ UNCHANGED <<thr, base, batch, probe>>


NoCall == [req |-> Payload("d1", "", "", RawNone, RawNone, IsoTz(0)), status |-> 0, raised |-> FALSE]

\* ---- worker threads: detect_trip_and_record statement by statement ----
Threads == {1, 2}

\* the requests served by the threads: one device, valid key and coordinates
ConcPayloads ==
  {Payload("d1", API_KEY, "", Num(p[1]), Num(p[2]), IsoTz(t)) :
     p \in {PA, PAB, PBnear, POut}, t \in {0, Tick(MaxTick)}}

IdleThread ==
  [pc |-> "idle", req |-> NoCall.req, state |-> 0, currentZone |-> "None",
   enter_time |-> None, enter_pos |-> None]

TLat(t) == FloatOf(thr[t].req.lat)
TLon(t) == FloatOf(thr[t].req.lon)
TTs(t) == parse_iso(thr[t].req.timestamp)
\* the dict the local variable state refers to
TState(t) == objs[thr[t].state]

Goto(t, pc) == thr' = [thr EXCEPT ![t].pc = pc]
At(t, pc) == thr[t].pc = pc

Snapshot == [state |-> [d \in Devices |-> StateOf(d)], trips |-> trips]

\* lines 124-149: the checks, the Device row and the Location row
Receive(t, p) ==
  /\ At(t, "idle")
  /\ ncalls < MaxConcCalls
  /\ Authorized(p) /\ FloatOk(p.lat) /\ FloatOk(p.lon)
  /\ LET d == p.device_id
         ts == parse_iso(p.timestamp)
         dev == DeviceIndex(d)
     IN /\ devices' = IF dev = 0
                      THEN Append(devices, [device_id |-> d, name |-> d, last_seen |-> ts])
                      ELSE [devices EXCEPT ![dev].last_seen = ts]
        /\ locations' = session_add(locations, [device_id |-> d, lat |-> FloatOf(p.lat),
                                                lon |-> FloatOf(p.lon), speed_kmh |-> 0,
                                                timestamp |-> ts])
  /\ thr' = [thr EXCEPT ![t] = [IdleThread EXCEPT !.pc = "L74", !.req = p]]
  /\ IF \A u \in Threads : At(u, "idle")
       THEN base' = Snapshot /\ batch' = <<p>>
       ELSE base' = base /\ batch' = Append(batch, p)
  /\ ncalls' = ncalls + 1
  /\ UNCHANGED <<trips, objs, device_state, call, reply, errors, probe>>

\* lines 74-79: the dict of the device, or a new one, and the zone of the sample
L74(t) ==
  /\ At(t, "L74")
  /\ LET d == thr[t].req.device_id
         cz == resolveZone(TLat(t), TLon(t))
     IN IF device_state[StateKey(d)] = 0
          THEN /\ objs' = Append(objs, DefaultState)
               /\ thr' = [thr EXCEPT ![t].pc = "L81", ![t].state = Len(objs) + 1,
                                     ![t].currentZone = cz]
        ELSE /\ objs' = objs
             /\ thr' = [thr EXCEPT ![t].pc = "L81", ![t].state = device_state[StateKey(d)],
                                   ![t].currentZone = cz]
  /\ UNCHANGED <<devices, locations, trips, device_state, call, ncalls, base, batch, reply, errors, probe>>

Frame == UNCHANGED <<devices, locations, trips, objs, device_state, call, ncalls, base, batch, reply, errors, probe>>
WriteFrame == UNCHANGED <<devices, locations, trips, device_state, call, ncalls, base, batch, reply, errors, probe>>

L81(t) ==
  /\ At(t, "L81")
  /\ IF TState(t).lastZone = "None" /\ thr[t].currentZone # "None"
       THEN Goto(t, "L82") ELSE Goto(t, "L85")
  /\ Frame

L82(t) ==
  /\ At(t, "L82")
  /\ objs' = [objs EXCEPT ![thr[t].state].lastZone = thr[t].currentZone]
  /\ Goto(t, "L83")
  /\ WriteFrame

L83(t) ==
  /\ At(t, "L83")
  /\ objs' = [objs EXCEPT ![thr[t].state].enter_time = Some(TTs(t))]
  /\ Goto(t, "L84")
  /\ WriteFrame

L84(t) ==
  /\ At(t, "L84")
  /\ objs' = [objs EXCEPT ![thr[t].state].enter_pos = Some(<<TLat(t), TLon(t)>>)]
  /\ Goto(t, "L115")
  /\ WriteFrame

L85(t) ==
  /\ At(t, "L85")
  /\ IF TState(t).lastZone = thr[t].currentZone
       THEN Goto(t, "L115") ELSE Goto(t, "L87")
  /\ Frame

\* line 87, and line 110 of the else branch
L87(t) ==
  /\ At(t, "L87")
  /\ IF /\ TState(t).lastZone # "None"
        /\ thr[t].currentZone # "None"
        /\ TState(t).lastZone # thr[t].currentZone
       THEN Goto(t, "L88")
     ELSE IF thr[t].currentZone = "None"
       THEN Goto(t, "L111")
     ELSE Goto(t, "L115")
  /\ Frame

L88(t) ==
  /\ At(t, "L88")
  /\ thr' = [thr EXCEPT ![t].pc = "L89", ![t].enter_time = TState(t).enter_time]
  /\ Frame

\* the trip row of lines 93-103 from the locals of thread t
TDuration(t, enter_time) ==
  IF enter_time # None THEN Seconds(TTs(t), enter_time[1]) ELSE 0
TDistance(t, enter_pos) ==
  IF enter_pos # None THEN haversine(enter_pos[1], <<TLat(t), TLon(t)>>) ELSE 0

\* lines 89-92: a TypeError of line 90 ends the call in the except of line 153
L89(t) ==
  /\ At(t, "L89")
  /\ LET enter_time == thr[t].enter_time
         enter_pos == TState(t).enter_pos
     IN IF enter_time # None /\ SubRaises(TTs(t), enter_time[1])
          THEN /\ thr' = [thr EXCEPT ![t] = IdleThread]
               /\ call' = [req |-> thr[t].req, status |-> StatusAfterDetect(TRUE),
                           raised |-> TRUE]
               /\ errors' = errors + 1
        ELSE /\ call' = call
             /\ errors' = errors
             /\ IF /\ enter_time # None
                   /\ enter_pos # None
                   /\ Qualifies(TDuration(t, enter_time), TDistance(t, enter_pos))
                  THEN thr' = [thr EXCEPT ![t].pc = "L93", ![t].enter_pos = enter_pos]
                ELSE thr' = [thr EXCEPT ![t].pc = "L106", ![t].enter_pos = enter_pos]
  /\ UNCHANGED <<devices, locations, trips, objs, device_state, ncalls, base, batch, reply,
                 probe>>

\* lines 93-105
L93(t) ==
  /\ At(t, "L93")
  /\ trips' = Append(trips,
       TripRow(thr[t].req.device_id, thr[t].enter_time[1], thr[t].enter_pos[1],
               TLat(t), TLon(t), TTs(t),
               TDistance(t, thr[t].enter_pos), TDuration(t, thr[t].enter_time)))
  /\ Goto(t, "L106")
  /\ UNCHANGED <<devices, locations, objs, device_state, call, ncalls, base, batch, reply, errors, probe>>

L106(t) ==
  /\ At(t, "L106")
  /\ objs' = [objs EXCEPT ![thr[t].state].lastZone = thr[t].currentZone]
  /\ Goto(t, "L107")
  /\ WriteFrame

L107(t) ==
  /\ At(t, "L107")
  /\ objs' = [objs EXCEPT ![thr[t].state].enter_time = Some(TTs(t))]
  /\ Goto(t, "L108")
  /\ WriteFrame

L108(t) ==
  /\ At(t, "L108")
  /\ objs' = [objs EXCEPT ![thr[t].state].enter_pos = Some(<<TLat(t), TLon(t)>>)]
  /\ Goto(t, "L115")
  /\ WriteFrame

L111(t) ==
  /\ At(t, "L111")
  /\ objs' = [objs EXCEPT ![thr[t].state].lastZone = "None"]
  /\ Goto(t, "L112")
  /\ WriteFrame

L112(t) ==
  /\ At(t, "L112")
  /\ objs' = [objs EXCEPT ![thr[t].state].enter_time = None]
  /\ Goto(t, "L113")
  /\ WriteFrame

L113(t) ==
  /\ At(t, "L113")
  /\ objs' = [objs EXCEPT ![thr[t].state].enter_pos = None]
  /\ Goto(t, "L115")
  /\ WriteFrame

\* line 115, then lines 156-157
L115(t) ==
  /\ At(t, "L115")
  /\ device_state' = [device_state EXCEPT ![StateKey(thr[t].req.device_id)] = thr[t].state]
  /\ thr' = [thr EXCEPT ![t] = IdleThread]
  /\ call' = [req |-> thr[t].req, status |-> StatusAfterDetect(FALSE), raised |-> FALSE]
  /\ UNCHANGED <<devices, locations, trips, objs, ncalls, base, batch, reply, errors, probe>>

Init ==
  /\ devices = <<>>
  /\ locations = <<>>
  /\ trips = <<>>
  /\ objs = <<>>
  /\ device_state = [d \in Devices |-> 0]
  /\ call = NoCall
  /\ ncalls = 0
  /\ thr = [t \in Threads |-> IdleThread]
  /\ base = Snapshot
  /\ batch = <<>>
  /\ reply = NoReply
  /\ errors = 0
  /\ probe = NoProbe

\* every commit of a Trip row succeeds
Next == \E p \in Payloads : ncalls < MaxCalls /\ api_location(p, TRUE)

Spec == Init /\ [][Next]_vars

\* the commit of a Trip row may raise
NextFault ==
  \E p \in Payloads : \E commit_ok \in BOOLEAN : ncalls < MaxCalls /\ api_location(p, commit_ok)

SpecFault == Init /\ [][NextFault]_vars

\* two threads serve requests and interleave between the statements of
\* detect_trip_and_record
NextConc ==
  \E t \in Threads :
    \/ \E p \in ConcPayloads : Receive(t, p)
    \/ L74(t) \/ L81(t) \/ L82(t) \/ L83(t) \/ L84(t) \/ L85(t) \/ L87(t)
    \/ L88(t) \/ L89(t) \/ L93(t) \/ L106(t) \/ L107(t) \/ L108(t)
    \/ L111(t) \/ L112(t) \/ L113(t) \/ L115(t)

SpecConc == Init /\ [][NextConc]_vars

\* ---- Queries ----
\* the rows of S that order_by(Location.timestamp.desc()) may put first
MaxRows_oldest(S) ==
  {i \in S : \A j \in S : locations[i].timestamp.t <= locations[j].timestamp.t}
MaxRows(S) ==
  {i \in S : \A j \in S : locations[j].timestamp.t <= locations[i].timestamp.t}

\* line 161: the orders the query may return the rows S in; rows of equal
\* timestamp come in any order
RECURSIVE Orders(_)
Orders(S) ==
  IF S = {} THEN {<<>>}
  ELSE UNION {{<<i>> \o o : o \in Orders(S \ {i})} : i \in MaxRows(S)}

\* lines 162-165: the first row of each device in the order given
RECURSIVE FirstSeen(_, _)
FirstSeen(order, seen) ==
  IF order = <<>> THEN <<>>
  ELSE LET r == locations[Head(order)]
       IN IF r.device_id \in seen THEN FirstSeen(Tail(order), seen)
          ELSE <<r>> \o FirstSeen(Tail(order), seen \cup {r.device_id})

\* GET /api/devices/latest
api_devices_latest ==
  /\ \E o \in Orders(DOMAIN locations) :
       reply' = [kind |-> "latest", rows |-> FirstSeen(o, {})]
  /\ UNCHANGED <<devices, locations, trips, objs, device_state, call, ncalls, thr, base,
                 batch, errors, probe>>

\* func.date(): the calendar day of a stored timestamp, counted from the epoch
date(ts) == ts.t \div DayStart(1)

\* the Trip rows of one group of line 173
DayTrips_by_end(day) == {i \in DOMAIN trips : date(trips[i].end_time) = day}
DayTrips(day) == {i \in DOMAIN trips : date(trips[i].start_time) = day}

RECURSIVE SumDistance(_)
SumDistance(S) ==
  IF S = {} THEN 0
  ELSE LET i == CHOOSE i \in S : TRUE IN trips[i].distance_m + SumDistance(S \ {i})

\* line 174: the groups by ascending day
RECURSIVE Ascending(_)
Ascending(days) ==
  IF days = {} THEN <<>>
  ELSE LET first == CHOOSE x \in days : \A y \in days : x <= y
       IN <<first>> \o Ascending(days \ {first})

\* lines 176-180: the running totals over the entries
RECURSIVE Total(_, _)
Total(rows, field) ==
  IF rows = <<>> THEN 0
  ELSE (IF field = "trips" THEN Head(rows).trips ELSE Head(rows).distance_m)
       + Total(Tail(rows), field)

\* GET /api/trips/summary
api_trips_summary ==
  /\ LET days == Ascending({date(trips[i].start_time) : i \in DOMAIN trips})
         rows == [k \in DOMAIN days |->
                    [date |-> days[k], trips |-> Cardinality(DayTrips(days[k])),
                     distance_m |-> SumDistance(DayTrips(days[k]))]]
     IN reply' = [kind |-> "summary", rows |-> rows,
                  total_trips |-> Total(rows, "trips"),
                  total_m |-> Total(rows, "distance_m")]
  /\ UNCHANGED <<devices, locations, trips, objs, device_state, call, ncalls, thr, base,
                 batch, errors, probe>>

\* the zone loop applied to a fence list and a point
InitZone ==
  /\ devices = <<>>
  /\ locations = <<>>
  /\ trips = <<>>
  /\ objs = <<>>
  /\ device_state = [d \in Devices |-> 0]
  /\ call = NoCall
  /\ ncalls = 0
  /\ thr = [t \in Threads |-> IdleThread]
  /\ base = Snapshot
  /\ batch = <<>>
  /\ reply = NoReply
  /\ errors = 0
  /\ probe \in Probes

SpecZone == InitZone /\ [][Resolve]_vars

\* each thread serves the calls of one device
DeviceOf(t) == IF t = 1 THEN "d1" ELSE "d2"
DevicePayloads(t) ==
  {Payload(DeviceOf(t), API_KEY, "", Num(s[1][1]), Num(s[1][2]), s[2]) :
     s \in {<<PA, IsoTz(0)>>, <<PBnear, IsoTz(Tick(MaxTick))>>, <<POut, IsoNaive(0)>>}}

\* calls of different devices interleave between the statements of
\* detect_trip_and_record
NextConcDev ==
  \E t \in Threads :
    \/ \E p \in DevicePayloads(t) : Receive(t, p)
    \/ L74(t) \/ L81(t) \/ L82(t) \/ L83(t) \/ L84(t) \/ L85(t) \/ L87(t)
    \/ L88(t) \/ L89(t) \/ L93(t) \/ L106(t) \/ L107(t) \/ L108(t)
    \/ L111(t) \/ L112(t) \/ L113(t) \/ L115(t)

SpecConcDev == Init /\ [][NextConcDev]_vars

\* samples are stored one call at a time and the two queries read the tables
NextQuery ==
  \/ \E p \in QueryPayloads : ncalls < MaxQueryCalls /\ api_location(p, TRUE)
  \/ api_devices_latest
  \/ api_trips_summary

SpecQuery == Init /\ [][NextQuery]_vars

\* ---- the sample of a request and the step that serves it ----
ReqDevice(c) == c.req.device_id
ReqLat(c) == FloatOf(c.req.lat)
ReqLon(c) == FloatOf(c.req.lon)
ReqPos(c) == <<ReqLat(c), ReqLon(c)>>
ReqTs(c) == parse_iso(c.req.timestamp)
ReqZone(c) == resolveZone(ReqLat(c), ReqLon(c))

\* this step serves a request
Served == ncalls' = ncalls + 1
\* this step serves a request that passed the key and coordinate checks
Accepted == Served /\ call'.status = 200

InZone(st) == st.lastZone # "None"
\* the sample of the step resolves to a zone other than the one the device is in
ToOtherZone(st) == InZone(st) /\ ReqZone(call') # "None" /\ ReqZone(call') # st.lastZone

RowsOf(d, table) == {i \in DOMAIN table : table[i].device_id = d}

\* C1: in IN_ZONE(Z, entryTime, entryPos), a sample of another zone with
\* ts - entryTime >= 30 s and distance(entryPos, sample) >= 20 m appends exactly
\* one Trip row: start = entryTime/entryPos, end = ts/sample, duration =
\* ts - entryTime, distance = distance(entryPos, sample).
C1_Step ==
  LET d == ReqDevice(call')
      st == StateOf(d)
      ts == ReqTs(call')
  IN (/\ Accepted
      /\ ToOtherZone(st)
      /\ ts.aware = st.enter_time[1].aware
      /\ ts.t - st.enter_time[1].t >= MIN_TRIP_TIME_S
      /\ haversine(st.enter_pos[1], ReqPos(call')) >= Metres(MIN_TRIP_DISTANCE_M))
     => trips' = Append(trips,
          [device_id |-> d,
           start_time |-> st.enter_time[1], end_time |-> ts,
           start_lat |-> st.enter_pos[1][1], start_lon |-> st.enter_pos[1][2],
           end_lat |-> ReqLat(call'), end_lon |-> ReqLon(call'),
           distance_m |-> haversine(st.enter_pos[1], ReqPos(call')),
           duration_s |-> ts.t - st.enter_time[1].t])
C2_Step ==
  LET d == ReqDevice(call')
      st == StateOf(d)
      ts == ReqTs(call')
  IN (Accepted /\ ToOtherZone(st))
     => /\ device_state'[d] # 0
        /\ objs'[device_state'[d]] =
             [lastZone |-> ReqZone(call'), enter_time |-> Some(ts),
              enter_pos |-> Some(ReqPos(call'))]
        /\ (\/ ts.t - st.enter_time[1].t < MIN_TRIP_TIME_S
            \/ haversine(st.enter_pos[1], ReqPos(call')) < Metres(MIN_TRIP_DISTANCE_M))
           => trips' = trips
C2_ZoneChangeAlwaysMoves == [][C2_Step]_vars

\* C3: from OUTSIDE a sample inside a zone enters it at that sample and
\* records no trip; a further sample of the same zone records no trip and
\* leaves entry time and entry position as they were.
C3_Step ==
  LET d == ReqDevice(call')
      st == StateOf(d)
  IN /\ (Accepted /\ ~InZone(st) /\ ReqZone(call') # "None")
        => /\ trips' = trips
           /\ device_state'[d] # 0
           /\ objs'[device_state'[d]] =
                [lastZone |-> ReqZone(call'), enter_time |-> Some(ReqTs(call')),
                 enter_pos |-> Some(ReqPos(call'))]
     /\ (Accepted /\ InZone(st) /\ ReqZone(call') = st.lastZone)
        => /\ trips' = trips
           /\ device_state'[d] # 0
           /\ objs'[device_state'[d]] = st
C3_EnterAndStayRecordNothing == [][C3_Step]_vars

\* the device is in a zone it entered with an earlier sample than its last two
C3_Witness ==
  \E d \in Devices :
    LET rows == RowsOf(d, locations)
    IN /\ call.status = 200
       /\ ReqDevice(call) = d
       /\ Cardinality(rows) = MaxCalls
       /\ \A i \in rows : resolveZone(locations[i].lat, locations[i].lon) = "A"
       /\ InZone(StateOf(d))
       /\ StateOf(d).enter_time = Some(locations[1].timestamp)
       /\ StateOf(d).enter_time # Some(ReqTs(call))
       /\ trips = <<>>

\* C4: a sample outside every zone records no trip and leaves the device
\* OUTSIDE with entry time and position null (from OUTSIDE the state stays
\* as it is); the zone sample that follows enters without a trip, so
\* A, outside, B records none.
C4_Step ==
  LET d == ReqDevice(call')
      st == StateOf(d)
  IN /\ (Accepted /\ ReqZone(call') = "None")
        => /\ trips' = trips
           /\ device_state'[d] # 0
           /\ objs'[device_state'[d]] =
                [lastZone |-> "None", enter_time |-> None, enter_pos |-> None]
     /\ (Accepted /\ ~InZone(st)) => trips' = trips
C4_NoZoneRecordsNothing == [][C4_Step]_vars

\* d1 reported A, then a point outside, then B, 30 s and 93 m after A
C4_Witness ==
  /\ Len(locations) = 3
  /\ \A i \in 1..3 : locations[i].device_id = "d1"
  /\ <<locations[1].lat, locations[1].lon>> = PA
  /\ resolveZone(locations[2].lat, locations[2].lon) = "None"
  /\ <<locations[3].lat, locations[3].lon>> = PBnear
  /\ locations[1].timestamp = [t |-> 0, aware |-> TRUE]
  /\ locations[3].timestamp = [t |-> MIN_TRIP_TIME_S, aware |-> TRUE]
  /\ StateOf("d1").lastZone = "B"
  /\ trips = <<>>

\* a point farther from every fence centre than the radius of the fence
OutsideAll(lat, lon) ==
  \A i \in DOMAIN GEOfences :
    haversine(<<lat, lon>>, <<GEOfences[i].lat, GEOfences[i].lon>>) >
      Metres(GEOfences[i].radius_m)

\* C5: a device none of whose samples lies inside a zone has no Trip row.
C5_NeverInZoneNoTrip ==
  \A d \in Devices :
    (\A i \in RowsOf(d, locations) : OutsideAll(locations[i].lat, locations[i].lon))
    => RowsOf(d, trips) = {}

\* d1 reported two outside points 30 s and a kilometre apart
C5_Witness ==
  /\ Len(locations) >= 2
  /\ \A i \in DOMAIN locations :
       locations[i].device_id = "d1" /\ OutsideAll(locations[i].lat, locations[i].lon)
  /\ <<locations[1].lat, locations[1].lon>> = POut
  /\ <<locations[2].lat, locations[2].lon>> = POut2
  /\ locations[2].timestamp.aware = locations[1].timestamp.aware
  /\ locations[2].timestamp.t - locations[1].timestamp.t >= MIN_TRIP_TIME_S
  /\ haversine(POut, POut2) >= Metres(MIN_TRIP_DISTANCE_M)
  /\ RowsOf("d1", trips) = {}

\* C6: entry time and entry position are both set or both null, and set
\* exactly when the last zone is non-null.
C6_EntrySetIffInZone ==
  \A d \in Devices :
    /\ (StateOf(d).enter_time = None) <=> (StateOf(d).enter_pos = None)
    /\ (StateOf(d).enter_time # None) <=> (StateOf(d).lastZone # "None")

\* one device is in a zone and another has left every zone after being in one
C6_Witness ==
  \E d, e \in Devices :
    /\ InZone(StateOf(d)) /\ StateOf(d).enter_time # None
    /\ device_state[e] # 0 /\ ~InZone(StateOf(e))
    /\ \E i \in RowsOf(e, locations) : ~OutsideAll(locations[i].lat, locations[i].lon)

\* ---- calls served by two threads ----
Quiescent == \A t \in Threads : At(t, "idle")

Count(r, table) == Cardinality({i \in DOMAIN table : table[i] = r})
SameRows(s, t) ==
  /\ Len(s) = Len(t)
  /\ \A i \in DOMAIN s : Count(s[i], s) = Count(s[i], t)

\* the Trip rows written when the sample of p, then the sample of q, are
\* processed one at a time from dict st
SerialRows(st, p, q) ==
  LET r1 == Detect(st, p.device_id, FloatOf(p.lat), FloatOf(p.lon),
                   parse_iso(p.timestamp), TRUE)
      r2 == Detect(r1.state, q.device_id, FloatOf(q.lat), FloatOf(q.lon),
                   parse_iso(q.timestamp), TRUE)
  IN r1.rows \o r2.rows

\* C7: when two calls for the same device have run concurrently and both
\* have returned, the Trip rows written since the last moment no call was
\* running are those of one of the two one-at-a-time orders of the samples.
C7_ConcurrentCallsSerializable ==
  (/\ Quiescent
   /\ Len(batch) = 2
   /\ batch[1].device_id = batch[2].device_id)
  => LET st == base.state[batch[1].device_id]
     IN \/ SameRows(trips, base.trips \o SerialRows(st, batch[1], batch[2]))
        \/ SameRows(trips, base.trips \o SerialRows(st, batch[2], batch[1]))

\* C8: every Trip row has duration_s >= 30, distance_m >= 20 m, end_time -
\* start_time = duration_s, a start position inside some zone and an end
\* position inside a different zone.
C8_TripsAreQualifiedZoneChanges ==
  \A i \in DOMAIN trips :
    LET r == trips[i]
    IN /\ r.duration_s >= MIN_TRIP_TIME_S
       /\ r.distance_m >= Metres(MIN_TRIP_DISTANCE_M)
       /\ r.start_time.aware = r.end_time.aware
       /\ r.end_time.t - r.start_time.t = r.duration_s
       /\ resolveZone(r.start_lat, r.start_lon) # "None"
       /\ resolveZone(r.end_lat, r.end_lon) # "None"
       /\ resolveZone(r.start_lat, r.start_lon) # resolveZone(r.end_lat, r.end_lon)

\* C9: a call whose trip detection or trip commit raises still stores its
\* location sample and answers ok; no trip is recorded.
C9_Step ==
  (Served /\ call'.raised)
  => /\ call'.status = 200
     /\ locations' = Append(locations,
          [device_id |-> ReqDevice(call'), lat |-> ReqLat(call'), lon |-> ReqLon(call'),
           speed_kmh |-> 0, timestamp |-> ReqTs(call')])
     /\ trips' = trips
C9_DetectionErrorKeepsIngestion == [][C9_Step]_vars

\* the commit of a qualifying trip has just failed
C9_Witness ==
  /\ call.raised
  /\ call.status = 200
  /\ InZone(StateOf(ReqDevice(call)))
  /\ ReqZone(call) # "None"
  /\ ReqZone(call) # StateOf(ReqDevice(call)).lastZone
  /\ ReqTs(call).aware = StateOf(ReqDevice(call)).enter_time[1].aware
  /\ locations[Len(locations)].timestamp = ReqTs(call)
  /\ trips = <<>>

\* C10: with a secret configured, a call whose credential is missing or
\* differs is answered 401 and leaves every table and every trip state as
\* it was.
C10_Step ==
  (Served /\ API_KEY # "" /\ Credential(call'.req) # API_KEY)
  => /\ call'.status = 401
     /\ UNCHANGED <<devices, locations, trips, objs, device_state>>
C10_BadCredentialChangesNothing == [][C10_Step]_vars

\* a call with a wrong key was refused after samples had been stored
C10_Witness ==
  /\ call.status = 401
  /\ Credential(call.req) = "wrong"
  /\ locations # <<>>
  /\ InZone(StateOf("d1"))

\* the coordinate of the body is absent or is text that is no number
NotNumeric(raw) == raw.k \in {"none", "text"}

\* C11: a call with the right key whose lat or lon is missing or not numeric
\* is answered 400 and writes nothing: no Location row, no Device row, also
\* for a device never seen before.
C11_Step ==
  (/\ Served
   /\ Credential(call'.req) = API_KEY
   /\ NotNumeric(call'.req.lat) \/ NotNumeric(call'.req.lon))
  => /\ call'.status = 400
     /\ UNCHANGED <<devices, locations, trips, objs, device_state>>
C11_BadCoordinatesWriteNothing == [][C11_Step]_vars

\* a call without lon was refused for a device that has no Device row
C11_Witness ==
  /\ call.status = 400
  /\ call.req.lon = RawNone
  /\ DeviceIndex(ReqDevice(call)) = 0
  /\ RowsOf(ReqDevice(call), locations) = {}
  /\ locations # <<>>

\* the rows of the reply that belong to device d
ReplyRowsOf(d) == {k \in DOMAIN reply.rows : reply.rows[k].device_id = d}

\* C12: the latest-positions query returns exactly one row for every device
\* that has a stored sample and none for any other; the row of a device is
\* one of its stored samples, and no stored sample of the device has a later
\* timestamp.
C12_LatestIsNewestPerDevice ==
  reply.kind = "latest" =>
    \A d \in Devices :
      IF RowsOf(d, locations) = {} THEN ReplyRowsOf(d) = {}
      ELSE /\ Cardinality(ReplyRowsOf(d)) = 1
           /\ \A k \in ReplyRowsOf(d) :
                /\ \E i \in RowsOf(d, locations) : locations[i] = reply.rows[k]
                /\ \A j \in RowsOf(d, locations) :
                     locations[j].timestamp.t <= reply.rows[k].timestamp.t

\* both devices have reported, and the newest sample of d1 is not the one
\* stored last
C12_Witness ==
  /\ reply.kind = "latest"
  /\ Len(reply.rows) = 2
  /\ \E k \in ReplyRowsOf("d1") : \E i \in RowsOf("d1", locations) :
       /\ \A j \in RowsOf("d1", locations) : j <= i
       /\ locations[i].timestamp.t < reply.rows[k].timestamp.t

RECURSIVE Distances(_)
Distances(S) ==
  IF S = {} THEN 0
  ELSE LET i == CHOOSE i \in S : TRUE IN trips[i].distance_m + Distances(S \ {i})

\* C13: in the trip summary total_trips is the sum of the per-day counts and
\* the number of Trip rows, the total distance is the sum of the per-day
\* distances and of distance_m over all Trip rows, every trip is counted in
\* exactly one day, the day of its start_time, the days are listed in
\* ascending order, and the query changes no stored data.
C13_Step ==
  (reply'.kind = "summary" /\ reply' # reply)
  => /\ UNCHANGED <<devices, locations, trips, objs, device_state>>
     /\ LET rows == reply'.rows
            entry(i) == {k \in DOMAIN rows : rows[k].date = trips[i].start_time.t \div DayStart(1)}
        IN /\ reply'.total_trips = Len(trips)
           /\ reply'.total_trips = Total(rows, "trips")
           /\ reply'.total_m = Distances(DOMAIN trips)
           /\ reply'.total_m = Total(rows, "distance_m")
           /\ \A i \in DOMAIN trips : Cardinality(entry(i)) = 1
           /\ \A k \in DOMAIN rows :
                LET of_day == {i \in DOMAIN trips : entry(i) = {k}}
                IN /\ rows[k].trips = Cardinality(of_day)
                   /\ rows[k].trips > 0
                   /\ rows[k].distance_m = Distances(of_day)
           /\ \A k \in DOMAIN rows : \A l \in DOMAIN rows : k < l => rows[k].date < rows[l].date
C13_SummaryAddsUp == [][C13_Step]_vars

\* the summary lists two days, and the trip of the later day was stored first
C13_Witness ==
  /\ reply.kind = "summary"
  /\ Len(reply.rows) = 2
  /\ reply.total_trips = 2
  /\ trips[1].start_time.t > trips[2].start_time.t
  /\ trips[1].end_time.t \div DayStart(1) = 1
  /\ trips[2].end_time.t \div DayStart(1) = 0

IsPrefix(s, t) == Len(s) <= Len(t) /\ \A i \in DOMAIN s : t[i] = s[i]

\* C14: the Location table and the Trip table only grow at the end: no step,
\* ingestion call or query, removes or changes a row stored before.
C14_Step == IsPrefix(locations, locations') /\ IsPrefix(trips, trips')
C14_TablesAppendOnly == [][C14_Step]_vars

\* a trip was stored, and a third sample of its device after the two of the trip
C14_Witness ==
  /\ Len(trips) = 1
  /\ Len(locations) = 3
  /\ \A i \in DOMAIN locations : locations[i].device_id = trips[1].device_id
  /\ reply.kind = "none"
  /\ call.status = 200

\* the device whose call thread t works on in this step
StepDevice(t) == IF At(t, "idle") THEN thr'[t].req.device_id ELSE thr[t].req.device_id

\* C15: a step of a call of device d leaves the trip state of every other
\* device as it was and adds Trip rows under the id of d only, also when
\* calls of different devices interleave between statements.
C15_Step ==
  \A t \in Threads :
    thr'[t] # thr[t] =>
      /\ \A e \in Devices \ {StepDevice(t)} :
           /\ StateOf(e)' = StateOf(e)
           /\ device_state'[e] = device_state[e]
      /\ IsPrefix(trips, trips')
      /\ \A i \in DOMAIN trips' \ DOMAIN trips : trips'[i].device_id = StepDevice(t)
C15_DevicesIndependent == [][C15_Step]_vars

\* the call of d1 has stored a trip and the call of d2 has written the zone
\* it entered, and neither has returned
C15_Witness ==
  /\ ~At(1, "idle") /\ ~At(2, "idle")
  /\ \E i \in DOMAIN trips : trips[i].device_id = "d1"
  /\ thr[2].state # 0
  /\ InZone(TState(2))
  /\ InZone(StateOf("d1"))

\* the fences of the probe whose centre is within their radius of its point
Containing(pr) ==
  {i \in DOMAIN pr.fences :
     haversine(<<pr.lat, pr.lon>>, <<pr.fences[i].lat, pr.fences[i].lon>>)
       <= Metres(pr.fences[i].radius_m)}

\* C16: the zone of a point is the first fence, in the declared order, whose
\* centre is at most its radius away, a point exactly at the radius being
\* inside, and no zone when no fence contains the point; where fences overlap
\* the first declared wins.
C16_ZoneIsFirstContainingFence ==
  probe.done =>
    IF Containing(probe) = {} THEN probe.zone = "None"
    ELSE \E i \in Containing(probe) :
           /\ \A j \in Containing(probe) : i <= j
           /\ probe.zone = probe.fences[i].name

\* a point exactly at the radius of the first fence and inside the second
C16_Witness ==
  /\ probe.done
  /\ Len(probe.fences) >= 2
  /\ haversine(<<probe.lat, probe.lon>>, <<probe.fences[1].lat, probe.fences[1].lon>>)
       = Metres(probe.fences[1].radius_m)
  /\ 2 \in Containing(probe)
  /\ probe.zone = probe.fences[1].name

\* C17: a call with the right key, a device id and lat and lon both given
\* as numbers, of any value, the number 0 included, is answered ok and
\* appends exactly one Location row.
C17_Step ==
  (/\ Served
   /\ Credential(call'.req) = API_KEY
   /\ call'.req.lat.k = "num"
   /\ call'.req.lon.k = "num")
  => /\ call'.status = 200
     /\ Len(locations') = Len(locations) + 1
     /\ IsPrefix(locations, locations')
     /\ locations'[Len(locations')].device_id = ReqDevice(call')
C17_NumericCoordinatesAccepted == [][C17_Step]_vars

\* C18: when a change of zone raises while the trip is recorded, the trip
\* state of the device stays exactly as it was before the call, so that a
\* later sample of the new zone is measured from the old entry.
C18_Step ==
  (Served /\ call'.raised)
  => /\ \A d \in Devices : StateOf(d)' = StateOf(d)
     /\ UNCHANGED <<objs, device_state>>
C18_FailedRecordingKeepsState == [][C18_Step]_vars

\* the commit of the trip of the second sample failed, and the third sample,
\* in the same new zone, recorded a trip that starts at the first sample
C18_Witness ==
  /\ errors = 1
  /\ Len(locations) = 3
  /\ \A i \in DOMAIN locations :
       locations[i].device_id = "d1" /\ locations[i].timestamp.aware
  /\ resolveZone(locations[1].lat, locations[1].lon) = "A"
  /\ resolveZone(locations[2].lat, locations[2].lon) = "B"
  /\ resolveZone(locations[3].lat, locations[3].lon) = "B"
  /\ Len(trips) = 1
  /\ trips[1].start_time = locations[1].timestamp
  /\ trips[1].end_time = locations[3].timestamp
  /\ locations[2].timestamp.t - locations[1].timestamp.t >= MIN_TRIP_TIME_S

\* the zone of every point a sample is sent from
ZoneOfPoint == [p \in Points |-> resolveZone(p[1], p[2])]
\* the zone of the stored sample i
ZoneOfRow(i) == ZoneOfPoint[<<locations[i].lat, locations[i].lon>>]
\* sample i of device d opens the run of samples of d, all in zone z, that
\* lasts to the last sample of d
OpensRun(d, i, z) ==
  /\ \A k \in RowsOf(d, locations) : k >= i => ZoneOfRow(k) = z
  /\ \A j \in RowsOf(d, locations) :
       j < i => \E k \in RowsOf(d, locations) : j <= k /\ k < i /\ ZoneOfRow(k) # z

\* C19: while samples are processed one call at a time and none has raised,
\* the lastZone of a device is the zone of its last sample, null when that
\* sample is outside every fence, and when it is a zone the entry time and
\* position are those of the first sample of the unbroken run of samples in
\* that zone that the last sample ends.
C19_StateTracksCurrentRun ==
  errors = 0 =>
    \A d \in Devices :
      IF RowsOf(d, locations) = {} THEN StateOf(d) = DefaultState
      ELSE \E last \in RowsOf(d, locations) :
             /\ \A j \in RowsOf(d, locations) : j <= last
             /\ StateOf(d).lastZone = ZoneOfRow(last)
             /\ InZone(StateOf(d)) =>
                  \E i \in RowsOf(d, locations) :
                    /\ StateOf(d).enter_time = Some(locations[i].timestamp)
                    /\ StateOf(d).enter_pos = Some(<<locations[i].lat, locations[i].lon>>)
                    /\ OpensRun(d, i, StateOf(d).lastZone)

\* d1 sent a sample in B and then two in A, at later times and different
\* places: its entry is the second sample
C19_Witness ==
  /\ errors = 0
  /\ RowsOf("d1", locations) = {1, 2, 3}
  /\ ZoneOfRow(1) = "B" /\ ZoneOfRow(2) = "A" /\ ZoneOfRow(3) = "A"
  /\ locations[1].timestamp.t < locations[2].timestamp.t
  /\ locations[2].timestamp.t < locations[3].timestamp.t
  /\ <<locations[2].lat, locations[2].lon>> # <<locations[3].lat, locations[3].lon>>
  /\ StateOf("d1").enter_time = Some(locations[2].timestamp)

\* C20: when two calls of detect_trip_and_record for one device have
\* interleaved between statements and both have returned, the trip state of
\* the device has enter_time and enter_pos set exactly when lastZone is not
\* null.
C20_EntrySetIffInZoneAfterRace ==
  (Quiescent /\ Len(batch) = 2) =>
    \A d \in Devices :
      /\ InZone(StateOf(d)) <=> StateOf(d).enter_time # None
      /\ InZone(StateOf(d)) <=> StateOf(d).enter_pos # None

====
